---- MODULE Spec2Model ----
(***************************************************************************)
(* Model of the zenway navigation screen.                                  *)
(*                                                                         *)
(*   NavigationView.tsx  - the progress simulator: a requestAnimationFrame *)
(*                         tick loop started by a React effect.            *)
(*   RealMap.tsx         - the route geometry resolver (fetch with an      *)
(*                         AbortController) and the Leaflet redraw effect  *)
(*                         with its recenter policy.                       *)
(*                                                                         *)
(* React is modelled by what it does to the component: a render takes the  *)
(* current props and state, then the effects whose dependencies changed    *)
(* run in declaration order (cleanup of the previous run first).  A        *)
(* setState inside an effect or callback is visible only to the next       *)
(* render, which is what priming a variable expresses.                     *)
(***************************************************************************)
EXTENDS Integers, Sequences, FiniteSets, TLC

\* ----------------------------------------------------------------- bounds
\* Granularity of the clock readings handed to performance.now(), in ms.
GapMs == 20000
\* The clock stops advancing after MaxClockSteps gaps.
MaxClockSteps == 7
\* Most animation-frame callbacks pending at once.
MaxPending == 3
\* onComplete invocations counted.
MaxComplete == 2
\* Routing requests issued during one mounted lifetime of the map.
MaxRequests == 2
\* Largest value the host's recenter counter takes.
MaxToken == 2

\* ------------------------------------------------------ program constants
MsPerMinute == 60 * 1000
\* route.distance || 0.8 (km), in metres.
DefaultDistanceM == 800
\* zoom of L.map(...) and of a first-draw setView
ZoomFirstDraw == 14
\* zoom of a forced setView
ZoomForced == 16
\* lastRecenterTokenRef before any token was applied (useRef(undefined)).
Undefined == -1

\* -------------------------------------------------------------- utilities
Min(a, b) == IF a <= b THEN a ELSE b
Max(a, b) == IF a >= b THEN a ELSE b

\* Fractions are pairs <<numerator, denominator>> with denominator > 0.
FracLE(p, q) == p[1] * q[2] <= q[1] * p[2]
FracLT(p, q) == p[1] * q[2] < q[1] * p[2]
FracEQ(p, q) == p[1] * q[2] = q[1] * p[2]

RECURSIVE Gcd(_, _)
Gcd(a, b) == IF b = 0 THEN a ELSE Gcd(b, a % b)

\* The same fraction in lowest terms.
Reduce(p) == LET g == Gcd(p[1], p[2]) IN << p[1] \div g, p[2] \div g >>

RECURSIVE SumDur(_)
SumDur(s) == IF s = <<>> THEN 0 ELSE s[1].duration + SumDur(Tail(s))

\* Sum of the durations of segments 0..i (0-based i), as the scan accumulates.
CumDur(s, i) == SumDur(SubSeq(s, 1, i + 1))

\* ------------------------------------------------------------------ routes
Seg(dur, distM, last) == [duration |-> dur, distance |-> distM, isLastMile |-> last]

\* The routes the host may hand to the screen: duration in minutes, distance
\* in metres, walkingSegments possibly empty.
Routes ==
  { [id |-> 1, duration |-> 1, distance |-> 0,    walkingSegments |-> <<>>],
    [id |-> 2, duration |-> 2, distance |-> 1250, walkingSegments |-> <<>>],
    [id |-> 3, duration |-> 2, distance |-> 800,
       walkingSegments |-> <<Seg(1, 400, FALSE), Seg(1, 400, TRUE)>>],
    [id |-> 4, duration |-> 1, distance |-> 600,
       walkingSegments |-> <<Seg(1, 200, FALSE), Seg(0, 0, FALSE), Seg(2, 400, TRUE)>>] }

VARIABLES
  \* --- NavigationView
  route,               \* prop: the Route
  navMounted,          \* the screen is mounted
  clock,               \* performance.now(), ms
  simStart,            \* the start instant captured by the first effect run
  progress,            \* state: fraction complete, <<num, den>>
  remainingMinutes,    \* state
  remainingDistance,   \* state, metres
  currentSegmentIndex, \* state, 0-based
  navDirty,            \* a state update is waiting for a render
  frames,              \* callbacks of the animation frame being run
  nextFrames,          \* callbacks requested for the next animation frame
  completeCount,       \* onComplete invocations
  lastTick             \* what the last tick computed and did

navVars == <<route, navMounted, clock, simStart, progress, remainingMinutes,
             remainingDistance, currentSegmentIndex, navDirty, frames,
             nextFrames, completeCount, lastTick>>

VARIABLES
  \* --- RealMap
  selectedRoute,        \* prop: <<>> (undefined) or <<route>>
  destinationCoords,    \* prop: <<>> (null) or <<point>>
  recenterToken,        \* prop: number
  mapMounted,           \* the component is mounted
  mapRef,               \* mapRef.current and layerGroupRef.current hold the map
  userLocation,         \* state as of the last render: <<>> (null) or <<point>>
  routeLine,            \* state as of the last render: sequence of points
  pendUser,             \* queued setUserLocation: <<>> (none) or <<point>>
  pendLine,             \* queued setRouteLine: <<>> (none) or <<line>>
  geoPending,           \* getCurrentPosition has not called back yet
  requests,             \* routing fetches not yet settled
  issued,               \* routing fetches issued so far
  cleanupReq,           \* the fetch whose controller the effect cleanup holds, or 0
  layers,               \* the layer group's layers, in insertion order
  view,                 \* the viewport, as last set
  firstDrawRef,         \* firstDrawRef.current
  lastRecenterTokenRef, \* lastRecenterTokenRef.current, Undefined at first
  lastRedraw,           \* what the last redraw saw and did
  lastDelivery          \* what the last settled fetch saw and did

mapVars == <<selectedRoute, destinationCoords, recenterToken, mapMounted, mapRef,
             userLocation, routeLine, pendUser, pendLine, geoPending, requests,
             issued, cleanupReq, layers, view, firstDrawRef,
             lastRecenterTokenRef, lastRedraw, lastDelivery>>

vars == <<navVars, mapVars>>

\* ============================================================ NavigationView

\* route.distance || 0.8
DistanceOr(r) == IF r.distance = 0 THEN DefaultDistanceM ELSE r.distance

\* A slip that builds no synthetic segment.
segmentsNoSynthetic(r) == r.walkingSegments

\* const segments = walkingSegments non-empty ? walkingSegments : [synthetic]
segments(r) ==
  IF Len(r.walkingSegments) > 0
    THEN r.walkingSegments
    ELSE << Seg(r.duration, DistanceOr(r), TRUE) >>

\* Whether `segments` is the same array on every render: the route's own array
\* is, the array literal built in the render is a new one each time.
SegmentsStable(r) == Len(r.walkingSegments) > 0

\* const currentSegment = segments[currentSegmentIndex]: <<>> when undefined.
currentSegment(r, idx) ==
  IF idx >= 0 /\ idx < Len(segments(r)) THEN << segments(r)[idx + 1] >> ELSE <<>>

\* const isLastSegment = currentSegmentIndex === segments.length - 1
isLastSegment(r, idx) == idx = Len(segments(r)) - 1

\* formatSegmentLabel(): "route" stands for the start -> end text.
formatSegmentLabel(r, idx) ==
  IF currentSegment(r, idx) = <<>> THEN ""
  ELSE IF isLastSegment(r, idx) /\ currentSegment(r, idx)[1].isLastMile
    THEN "Last mile walk to destination"
  ELSE "route"

durationMs(r) == r.duration * MsPerMinute

\* Math.min(elapsed / durationMs, 1)
TickFraction(start, now, r) ==
  Reduce(<< Min(now - start, durationMs(r)), durationMs(r) >>)

\* Math.round of a non-negative fraction: halves round up.
Round(x) == (2 * x[1] + x[2]) \div (2 * x[2])

\* Number(x.toFixed(2)) of a distance in km, kept in metres: the nearest
\* multiple of 10 m, halves up.
ToFixed2(x) == 10 * ((2 * x[1] + 10 * x[2]) \div (20 * x[2]))

\* Math.max(Math.round(route.duration * (1 - fraction)), 0)
TickRemainingMinutes(r, f) == Max(Round(<< r.duration * (f[2] - f[1]), f[2] >>), 0)

\* A slip that reports the share already travelled.
TickTravelledDistance(r, f) ==
  Max(ToFixed2(<< DistanceOr(r) * f[1], f[2] >>), 0)

\* Math.max(Number(((route.distance || 0.8) * (1 - fraction)).toFixed(2)), 0)
TickRemainingDistance(r, f) ==
  Max(ToFixed2(<< DistanceOr(r) * (f[2] - f[1]), f[2] >>), 0)

\* A plausible slip: the target taken from the remaining share of the route.
TargetRemaining(segs, f) == << SumDur(segs) * (f[2] - f[1]), f[2] >>

\* const target = totalDur * fraction
Target(segs, f) == << SumDur(segs) * f[1], f[2] >>

\* A slip that breaks on target < cum.
ScanIndexStrict(segs, f) ==
  LET hits == { i \in 0..(Len(segs) - 1) : FracLT(Target(segs, f), << CumDur(segs, i), 1 >>) }
  IN  IF hits = {} THEN -1
      ELSE CHOOSE i \in hits : \A j \in hits : i <= j

\* The for loop: the first i with target <= cum, or -1 when the loop ends
\* without a break (no setCurrentSegmentIndex call).
ScanIndex(segs, f) ==
  LET hits == { i \in 0..(Len(segs) - 1) : FracLE(Target(segs, f), << CumDur(segs, i), 1 >>) }
  IN  IF hits = {} THEN -1
      ELSE CHOOSE i \in hits : \A j \in hits : i <= j

\* requestAnimationFrame(tick): the callback joins the next frame's list.  The
\* entry keeps what the closure captured (start) and whether its id is the one
\* the effect's cleanup holds (line 124) or was dropped (line 118).
RequestAnimationFrame(q, start, held) == Append(q, [start |-> start, held |-> held])

\* return () => cancelAnimationFrame(id): withdraws the callback whose id the
\* cleanup holds, if it has not run yet.
CancelAnimationFrame(q) == SelectSeq(q, LAMBDA e : ~e.held)

\* One run of the tick effect after the cleanup of the previous run.
RunTickEffect(q, now) == RequestAnimationFrame(CancelAnimationFrame(q), now, TRUE)

NoTick == [ran |-> FALSE, start |-> 0, now |-> 0, fraction |-> <<0, 1>>,
           index |-> -1, completed |-> FALSE, mounted |-> TRUE,
           prevRan |-> FALSE, prevFraction |-> <<0, 1>>, prevIndex |-> -1]

InitNavWith(r, now) ==
  /\ route = r
  /\ navMounted = TRUE
  /\ clock = now
  /\ simStart = clock
  /\ progress = <<0, 1>>
  /\ remainingMinutes = route.duration
  /\ remainingDistance = DistanceOr(route)
  /\ currentSegmentIndex = 0
  /\ navDirty = FALSE
  /\ frames = <<>>
  /\ nextFrames = RequestAnimationFrame(<<>>, clock, TRUE)
  /\ completeCount = 0
  /\ lastTick = NoTick

InitNav == \E r \in Routes, now \in {0, GapMs} : InitNavWith(r, now)

\* The display refresh: the callbacks requested so far are the ones this
\* frame runs; callbacks requested while it runs wait for the next frame.
BeginFrame ==
  /\ frames = <<>>
  /\ nextFrames # <<>>
  /\ frames' = nextFrames
  /\ nextFrames' = <<>>
  /\ UNCHANGED <<route, navMounted, clock, simStart, progress, remainingMinutes,
                 remainingDistance, currentSegmentIndex, navDirty,
                 completeCount, lastTick>>
  /\ UNCHANGED mapVars

\* performance.now() moves on between frames.
ClockAdvance ==
  /\ frames = <<>>
  /\ \E k \in 1..3 :
       /\ clock + k * GapMs <= MaxClockSteps * GapMs
       /\ clock' = clock + k * GapMs
  /\ UNCHANGED <<route, navMounted, simStart, progress, remainingMinutes,
                 remainingDistance, currentSegmentIndex, navDirty, frames,
                 nextFrames, completeCount, lastTick>>
  /\ UNCHANGED mapVars

\* tick (lines 90-122).  State setters of an unmounted component do nothing.
RunTick ==
  /\ frames # <<>>
  /\ LET e        == Head(frames)
         fraction == TickFraction(e.start, clock, route)
         idx      == ScanIndex(segments(route), fraction)
         mins     == TickRemainingMinutes(route, fraction)
         dist     == TickRemainingDistance(route, fraction)
         newIdx   == IF idx >= 0 THEN idx ELSE currentSegmentIndex
         done     == ~FracLT(fraction, <<1, 1>>)
     IN  /\ done => completeCount < MaxComplete
         /\ frames' = Tail(frames)
         /\ IF navMounted
              THEN /\ progress' = fraction
                   /\ remainingMinutes' = mins
                   /\ remainingDistance' = dist
                   /\ currentSegmentIndex' = newIdx
                   /\ navDirty' = (navDirty \/ progress # fraction
                                     \/ remainingMinutes # mins
                                     \/ remainingDistance # dist
                                     \/ currentSegmentIndex # newIdx)
              ELSE UNCHANGED <<progress, remainingMinutes, remainingDistance,
                               currentSegmentIndex, navDirty>>
         /\ IF done
              THEN /\ completeCount' = completeCount + 1
                   /\ UNCHANGED nextFrames
              ELSE /\ nextFrames' = RequestAnimationFrame(nextFrames, e.start, FALSE)
                   /\ UNCHANGED completeCount
         /\ lastTick' = [ran |-> TRUE, start |-> e.start, now |-> clock,
                         fraction |-> fraction, index |-> idx,
                         completed |-> done, mounted |-> navMounted,
                         prevRan |-> lastTick.ran,
                         prevFraction |-> lastTick.fraction,
                         prevIndex |-> lastTick.index]
  /\ UNCHANGED <<route, navMounted, clock, simStart>>
  /\ UNCHANGED mapVars

\* A render of NavigationView caused by its own state updates.  The effect's
\* dependencies are [onComplete, route.distance, route.duration, segments].
NavRender ==
  /\ navMounted
  /\ navDirty
  /\ frames = <<>>
  /\ navDirty' = FALSE
  /\ IF SegmentsStable(route)
       THEN UNCHANGED nextFrames
       ELSE /\ Len(CancelAnimationFrame(nextFrames)) < MaxPending
            /\ nextFrames' = RunTickEffect(nextFrames, clock)
  /\ UNCHANGED <<route, navMounted, clock, simStart, progress, remainingMinutes,
                 remainingDistance, currentSegmentIndex, frames,
                 completeCount, lastTick>>
  /\ UNCHANGED mapVars

\* A render caused by the host, which may hand over a new onComplete closure.
HostRender ==
  /\ navMounted
  /\ frames = <<>>
  /\ navDirty' = FALSE
  /\ \E newOnComplete \in BOOLEAN :
       IF SegmentsStable(route) /\ ~newOnComplete
         THEN UNCHANGED nextFrames
         ELSE /\ Len(CancelAnimationFrame(nextFrames)) < MaxPending
              /\ nextFrames' = RunTickEffect(nextFrames, clock)
  /\ UNCHANGED <<route, navMounted, clock, simStart, progress, remainingMinutes,
                 remainingDistance, currentSegmentIndex, frames,
                 completeCount, lastTick>>
  /\ UNCHANGED mapVars

\* Screen exit: the effect's cleanup runs.
NavUnmount ==
  /\ navMounted
  /\ frames = <<>>
  /\ navMounted' = FALSE
  /\ navDirty' = FALSE
  /\ nextFrames' = CancelAnimationFrame(nextFrames)
  /\ UNCHANGED <<route, clock, simStart, progress, remainingMinutes,
                 remainingDistance, currentSegmentIndex, frames,
                 completeCount, lastTick>>
  /\ UNCHANGED mapVars

\* =================================================================== RealMap

Pt(lat, lng) == [lat |-> lat, lng |-> lng]

\* Coordinates in millidegrees.
PUser  == Pt(1000, 2000)
PDestA == Pt(3000, 4000)
PDestB == Pt(5000, 6000)
\* { lat: 3.139, lng: 101.686 }
KLFallback == Pt(3139, 101686)

\* A transport-mode label, by the keywords its lower-cased text includes.
Mode(text, has) == [text |-> text, includes |-> has]

MapRoute(id, path, dest, modes) ==
  [id |-> id, pathCoordinates |-> path, destinationCoords |-> dest,
   transportModes |-> modes]

\* The values the host passes as selectedRoute: undefined, or a route.
MapRoutes ==
  { <<>>,
    << MapRoute(1, <<>>, <<>>, <<>>) >>,
    << MapRoute(2, <<>>, << PDestA >>, << Mode("Bus 12", {"bus"}) >>) >>,
    << MapRoute(3, << PUser, Pt(2000, 3000), PDestB >>, << PDestB >>,
                << Mode("Bus 12", {"bus"}), Mode("MRT Circle", {"mrt"}) >>) >> }

\* The values the host passes as destinationCoords.
DestCoords == { <<>>, << PDestB >> }

\* What the platform location capability may report.
Positions == { PUser }

\* geometry.coordinates of a routing response: [longitude, latitude] pairs.
CoordLists ==
  { <<>>,
    << <<2000, 1000>> >>,
    << <<2000, 1000>>, <<4000, 3000>> >> }

\* How a fetch may settle: a body with coordinates, a body without the nested
\* routes[0].geometry.coordinates, or a rejected fetch.
Outcomes ==
  { [kind |-> "ok", coordinates |-> c] : c \in CoordLists }
    \cup { [kind |-> "malformed", coordinates |-> <<>>],
           [kind |-> "network", coordinates |-> <<>>] }

\* selectedRoute?.destinationCoords || destinationCoords || null
destinationPoint(sr, dc) ==
  IF sr # <<>> /\ sr[1].destinationCoords # <<>>
    THEN sr[1].destinationCoords
    ELSE dc

\* selectedRoute?.id
RouteId(sr) == IF sr = <<>> THEN 0 ELSE sr[1].id

\* center: user position, else destination, else the fallback.
center(ul, dp) ==
  IF ul # <<>> THEN ul[1] ELSE IF dp # <<>> THEN dp[1] ELSE KLFallback

\* A slip that never takes the precomputed path.
HasPathNever(sr) == FALSE

\* selectedRoute?.pathCoordinates?.length
HasPath(sr) == sr # <<>> /\ Len(sr[1].pathCoordinates) > 0

\* A slip that leaves the line alone when an input is missing.
KeepLine(pend) == pend

\* setRouteLine([]) of the missing-input branch: the queued update is [].
ClearLine(pend) == << <<>> >>

\* A cleanup that leaves the controller alone.
AbortNothing(reqs, id) == reqs

\* controller.abort() of the fetch the cleanup holds.
AbortRequest(reqs, id) ==
  [i \in 1..Len(reqs) |->
     IF reqs[i].id = id THEN [reqs[i] EXCEPT !.aborted = TRUE] ELSE reqs[i]]

\* A slip that keeps the axis order of the service.
MapCoordinatesSwapped(cs) ==
  [i \in 1..Len(cs) |-> [lng |-> cs[i][2], lat |-> cs[i][1]]]

\* data.routes[0].geometry.coordinates.map(c => ({ lng: c[0], lat: c[1] }))
MapCoordinates(cs) == [i \in 1..Len(cs) |-> [lng |-> cs[i][1], lat |-> cs[i][2]]]

\* The route geometry effect (lines 86-118), run after the cleanup of its
\* previous run, over the values of this render.
GeometryEffect(sr, dp, ul, reqs, n, pend, held) ==
  LET rs == AbortRequest(reqs, held)
  IN  IF HasPath(sr)
        THEN [requests |-> rs, issued |-> n, cleanupReq |-> 0,
              pendLine |-> << sr[1].pathCoordinates >>]
      ELSE IF ul = <<>> \/ dp = <<>>
        THEN [requests |-> rs, issued |-> n, cleanupReq |-> 0,
              pendLine |-> ClearLine(pend)]
      ELSE [requests |-> Append(rs, [id |-> n + 1, from |-> ul[1], to |-> dp[1],
                                     aborted |-> FALSE]),
            issued |-> n + 1, cleanupReq |-> n + 1, pendLine |-> pend]

\* Whether this run of the geometry effect calls fetch.
Fetches(sr, dp, ul) == ~HasPath(sr) /\ ul # <<>> /\ dp # <<>>

\* The icon of a transport-mode label.
Icon(mode) ==
  IF "bus" \in mode.includes THEN "bus"
  ELSE IF mode.includes \cap {"metro", "mrt", "rail"} # {} THEN "rail"
  ELSE "walk"

\* A slip that drops the lower bound of the step.
transitStopsNoFloor(sr, line) ==
  IF sr = <<>> \/ Len(sr[1].transportModes) = 0 THEN <<>>
  ELSE LET coords == IF Len(sr[1].pathCoordinates) > 0
                       THEN sr[1].pathCoordinates ELSE line
           modes  == sr[1].transportModes
       IN  IF Len(coords) = 0 THEN <<>>
           ELSE LET step == Len(coords) \div Len(modes)
                IN  [i \in 1..Len(modes) |->
                       [point |-> coords[Min((i - 1) * step, Len(coords) - 1) + 1],
                        icon  |-> Icon(modes[i])]]

\* transitStops (lines 137-170).
transitStops(sr, line) ==
  IF sr = <<>> \/ Len(sr[1].transportModes) = 0 THEN <<>>
  ELSE LET coords == IF Len(sr[1].pathCoordinates) > 0
                       THEN sr[1].pathCoordinates ELSE line
           modes  == sr[1].transportModes
       IN  IF Len(coords) = 0 THEN <<>>
           ELSE LET step == Max(1, Len(coords) \div Len(modes))
                IN  [i \in 1..Len(modes) |->
                       [point |-> coords[Min((i - 1) * step, Len(coords) - 1) + 1],
                        icon  |-> Icon(modes[i])]]

Layer(kind, pts, icon) == [kind |-> kind, latlngs |-> pts, icon |-> icon]
LatLng(p) == << p.lat, p.lng >>

\* A slip that leaves the layers of the previous redraw in the group.
KeepLayers(ls) == ls

\* group.clearLayers()
ClearLayers(ls) == <<>>

\* The layers one redraw adds to the cleared group (lines 222-248).
DrawLayers(line, ul, dp, stops) ==
  (IF Len(line) > 1
     THEN << Layer("polyline", [i \in 1..Len(line) |-> LatLng(line[i])], "none") >>
     ELSE <<>>)
  \o (IF ul # <<>> THEN << Layer("marker", << LatLng(ul[1]) >>, "user") >> ELSE <<>>)
  \o (IF dp # <<>> THEN << Layer("marker", << LatLng(dp[1]) >>, "destination") >> ELSE <<>>)
  \o [i \in 1..Len(stops) |-> Layer("marker", << LatLng(stops[i].point) >>, stops[i].icon)]

SetMin(S) == CHOOSE x \in S : \A y \in S : x <= y
SetMax(S) == CHOOSE x \in S : \A y \in S : x >= y

NoBounds == [south |-> 0, north |-> 0, west |-> 0, east |-> 0]

\* polyline.getBounds()
Bounds(line) ==
  LET lats == { line[i].lat : i \in 1..Len(line) }
      lngs == { line[i].lng : i \in 1..Len(line) }
  IN  [south |-> SetMin(lats), north |-> SetMax(lats),
       west |-> SetMin(lngs), east |-> SetMax(lngs)]

\* The centre fitBounds moves the viewport to; the zoom it picks is Leaflet's
\* (0 here).
BoundsCenter(b) == Pt((b.south + b.north) \div 2, (b.west + b.east) \div 2)

View(kind, c, zoom, b) == [kind |-> kind, center |-> c, zoom |-> zoom, bounds |-> b]

\* A slip that never re-arms the first draw.
RearmNever(first, idChanged, destChanged) == first

\* firstDrawRef after the re-arm effect (lines 212-214), whose dependencies are
\* selectedRoute?.id, destinationCoords?.lat and destinationCoords?.lng.
Rearm(first, idChanged, destChanged) ==
  IF idChanged \/ destChanged THEN TRUE ELSE first

\* A slip that never records the applied token.
KeepLastToken(force, tok, last) == last

\* lastRecenterTokenRef after a redraw (lines 266-268).
NextLastToken(force, tok, last) == IF force THEN tok ELSE last

\* A slip that keeps the first-draw flag until the route line is resolved.
RecenterWhenResolved(line, c, tok, first, last, v) ==
  LET forceRecenter  == tok # last
      shouldRecenter == first \/ forceRecenter
  IN  [view |-> IF ~shouldRecenter THEN v
                ELSE IF Len(line) > 1
                  THEN View("fitBounds", BoundsCenter(Bounds(line)), 0, Bounds(line))
                  ELSE View("setView", c,
                            IF forceRecenter THEN ZoomForced ELSE ZoomFirstDraw,
                            NoBounds),
       recentered |-> shouldRecenter,
       forced |-> forceRecenter,
       firstDraw |-> IF Len(line) > 1 THEN FALSE ELSE first,
       lastToken |-> NextLastToken(forceRecenter, tok, last)]

\* The recenter policy of one redraw (lines 250-268): what it does to the
\* viewport and to the two refs.
Recenter(line, c, tok, first, last, v) ==
  LET forceRecenter  == tok # last
      shouldRecenter == first \/ forceRecenter
  IN  [view |-> IF ~shouldRecenter THEN v
                ELSE IF Len(line) > 1
                  THEN View("fitBounds", BoundsCenter(Bounds(line)), 0, Bounds(line))
                  ELSE View("setView", c,
                            IF forceRecenter THEN ZoomForced ELSE ZoomFirstDraw,
                            NoBounds),
       recentered |-> shouldRecenter,
       forced |-> forceRecenter,
       firstDraw |-> FALSE,
       lastToken |-> NextLastToken(forceRecenter, tok, last)]

\* The state the hooks hold once the queued updates are applied.
UserLocationNow == IF pendUser # <<>> THEN pendUser ELSE userLocation
RouteLineNow == IF pendLine # <<>> THEN pendLine[1] ELSE routeLine

NoDelivery == [ran |-> FALSE, id |-> 0, aborted |-> FALSE, latest |-> FALSE,
               kind |-> "none", logged |-> FALSE, set |-> FALSE,
               before |-> <<>>, after |-> <<>>, coordinates |-> <<>>,
               mounted |-> TRUE]

\* The state after the first render and its effects (lines 69-278, in order).
InitMapWith(sr, dc, geo) ==
  LET dp == destinationPoint(sr, dc)
      g  == GeometryEffect(sr, dp, <<>>, <<>>, 0, <<>>, 0)
      c  == center(<<>>, dp)
      r  == Recenter(<<>>, c, 0, Rearm(TRUE, TRUE, TRUE), Undefined,
                     View("init", c, ZoomFirstDraw, NoBounds))
  IN  /\ selectedRoute = sr
      /\ destinationCoords = dc
      /\ recenterToken = 0
      /\ mapMounted = TRUE
      /\ mapRef = TRUE
      /\ userLocation = <<>>
      /\ routeLine = <<>>
      /\ pendUser = <<>>
      /\ pendLine = g.pendLine
      /\ geoPending = geo
      /\ requests = g.requests
      /\ issued = g.issued
      /\ cleanupReq = g.cleanupReq
      /\ layers = ClearLayers(<<>>) \o DrawLayers(<<>>, <<>>, dp, transitStops(sr, <<>>))
      /\ view = r.view
      /\ firstDrawRef = r.firstDraw
      /\ lastRecenterTokenRef = r.lastToken
      /\ lastRedraw = [ran |-> TRUE, first |-> TRUE, recentered |-> r.recentered,
                       forced |-> r.forced, routeChanged |-> FALSE,
                       tokenChanged |-> FALSE, destChanged |-> FALSE,
                       pointChanged |-> FALSE, lineAppeared |-> FALSE,
                       lineLen |-> 0]
      /\ lastDelivery = NoDelivery

InitMap ==
  \E sr \in MapRoutes, dc \in DestCoords, geo \in BOOLEAN : InitMapWith(sr, dc, geo)

\* One render of RealMap with the props sr2, dc2, tok2, followed by its
\* effects.  identityChanged: the host passed new objects, whatever they hold.
Commit(sr2, dc2, tok2, identityChanged) ==
  LET ul    == UserLocationNow
      line  == RouteLineNow
      dpOld == destinationPoint(selectedRoute, destinationCoords)
      dp    == destinationPoint(sr2, dc2)
      geomChanged == \/ identityChanged
                     \/ sr2 # selectedRoute
                     \/ dp # dpOld
                     \/ ul # userLocation
      g     == IF geomChanged
                 THEN GeometryEffect(sr2, dp, ul, requests, issued, <<>>, cleanupReq)
                 ELSE [requests |-> requests, issued |-> issued,
                       cleanupReq |-> cleanupReq, pendLine |-> <<>>]
      idChanged   == RouteId(sr2) # RouteId(selectedRoute)
      destChanged == dc2 # destinationCoords
      first == Rearm(firstDrawRef, idChanged, destChanged)
      r     == IF mapRef
                 THEN Recenter(line, center(ul, dp), tok2, first,
                               lastRecenterTokenRef, view)
                 ELSE [view |-> view, recentered |-> FALSE, forced |-> FALSE,
                       firstDraw |-> first, lastToken |-> lastRecenterTokenRef]
  IN  /\ mapMounted
      /\ (geomChanged /\ Fetches(sr2, dp, ul)) => issued < MaxRequests
      /\ selectedRoute' = sr2
      /\ destinationCoords' = dc2
      /\ recenterToken' = tok2
      /\ userLocation' = ul
      /\ routeLine' = line
      /\ pendUser' = <<>>
      /\ pendLine' = g.pendLine
      /\ requests' = g.requests
      /\ issued' = g.issued
      /\ cleanupReq' = g.cleanupReq
      /\ layers' = IF mapRef
                      THEN ClearLayers(layers)
                             \o DrawLayers(line, ul, dp, transitStops(sr2, line))
                      ELSE layers
      /\ view' = r.view
      /\ firstDrawRef' = r.firstDraw
      /\ lastRecenterTokenRef' = r.lastToken
      /\ lastRedraw' = [ran |-> mapRef, first |-> FALSE, recentered |-> r.recentered,
                        forced |-> r.forced, routeChanged |-> idChanged,
                        tokenChanged |-> (tok2 # recenterToken),
                        destChanged |-> destChanged,
                        pointChanged |-> (dp # dpOld),
                        lineAppeared |-> (Len(line) >= 2 /\ Len(routeLine) < 2),
                        lineLen |-> Len(line)]
      /\ UNCHANGED <<mapMounted, mapRef, geoPending, lastDelivery>>

\* A render caused by RealMap's own state updates.
MapRender ==
  /\ pendUser # <<>> \/ pendLine # <<>>
  /\ Commit(selectedRoute, destinationCoords, recenterToken, FALSE)
  /\ UNCHANGED navVars

\* A render caused by the host: any props, the same ones included (the host
\* renders on every simulator tick).
MapHostRender ==
  /\ \E sr2 \in MapRoutes, dc2 \in DestCoords, identityChanged \in BOOLEAN :
       Commit(sr2, dc2, recenterToken, identityChanged)
  /\ UNCHANGED navVars

\* The Center map button: setRecenterToken(t => t + 1), and the render of the
\* host that follows.
CenterMapClick ==
  /\ recenterToken < MaxToken
  /\ Commit(selectedRoute, destinationCoords, recenterToken + 1, FALSE)
  /\ UNCHANGED navVars

\* getCurrentPosition succeeds (lines 73-78).
GeoSuccess ==
  /\ geoPending
  /\ geoPending' = FALSE
  /\ \E p \in Positions :
       pendUser' = IF mapMounted THEN << p >> ELSE pendUser
  /\ UNCHANGED <<selectedRoute, destinationCoords, recenterToken, mapMounted, mapRef,
                 userLocation, routeLine, pendLine, requests, issued, cleanupReq,
                 layers, view, firstDrawRef, lastRecenterTokenRef, lastRedraw,
                 lastDelivery>>
  /\ UNCHANGED navVars

\* getCurrentPosition fails or is denied (lines 79-81): console.error only.
GeoError ==
  /\ geoPending
  /\ geoPending' = FALSE
  /\ UNCHANGED <<selectedRoute, destinationCoords, recenterToken, mapMounted, mapRef,
                 userLocation, routeLine, pendUser, pendLine, requests, issued,
                 cleanupReq, layers, view, firstDrawRef, lastRecenterTokenRef,
                 lastRedraw, lastDelivery>>
  /\ UNCHANGED navVars

RemoveAt(q, i) == SubSeq(q, 1, i - 1) \o SubSeq(q, i + 1, Len(q))

\* A fetch settles (lines 102-115).  An aborted fetch rejects with AbortError,
\* which the catch passes over in silence.
Deliver ==
  /\ \E i \in 1..Len(requests), o \in Outcomes :
       LET r   == requests[i]
           set == ~r.aborted /\ o.kind = "ok" /\ mapMounted
       IN  /\ requests' = RemoveAt(requests, i)
           /\ pendLine' = IF set THEN << MapCoordinates(o.coordinates) >> ELSE pendLine
           /\ lastDelivery' =
                [ran |-> TRUE, id |-> r.id, aborted |-> r.aborted,
                 latest |-> (r.id = issued),
                 kind |-> IF r.aborted THEN "abort" ELSE o.kind,
                 logged |-> (~r.aborted /\ o.kind = "network"),
                 set |-> set,
                 before |-> RouteLineNow,
                 after |-> IF set THEN MapCoordinates(o.coordinates) ELSE RouteLineNow,
                 coordinates |-> IF set THEN o.coordinates ELSE <<>>,
                 mounted |-> mapMounted]
  /\ UNCHANGED <<selectedRoute, destinationCoords, recenterToken, mapMounted, mapRef,
                 userLocation, routeLine, pendUser, geoPending, issued,
                 cleanupReq, layers, view, firstDrawRef, lastRecenterTokenRef,
                 lastRedraw>>
  /\ UNCHANGED navVars

\* A cleanup that leaves the refs pointing at the removed map.
KeepMap(live) == live

\* mapRef.current = null; layerGroupRef.current = null (lines 205-206)
ReleaseMap(live) == FALSE

\* Screen exit: the cleanups of the geometry effect and of the map effect.
MapUnmount ==
  /\ mapMounted
  /\ mapMounted' = FALSE
  /\ mapRef' = ReleaseMap(mapRef)
  /\ requests' = AbortRequest(requests, cleanupReq)
  /\ cleanupReq' = 0
  /\ layers' = <<>>
  /\ pendUser' = <<>>
  /\ pendLine' = <<>>
  /\ UNCHANGED <<selectedRoute, destinationCoords, recenterToken, userLocation,
                 routeLine, geoPending, issued, view, firstDrawRef,
                 lastRecenterTokenRef, lastRedraw, lastDelivery>>
  /\ UNCHANGED navVars

NextMap ==
  \/ MapRender
  \/ MapHostRender
  \/ CenterMapClick
  \/ GeoSuccess
  \/ GeoError
  \/ Deliver
  \/ MapUnmount

\* ===================================================== specifications

NextNav ==
  \/ BeginFrame
  \/ ClockAdvance
  \/ RunTick
  \/ NavRender
  \/ HostRender
  \/ NavUnmount

\* The progress simulator, beside a map that is left alone.
InitSimulator == InitNav /\ InitMapWith(<<>>, <<>>, FALSE)

SpecNav == InitSimulator /\ [][NextNav]_vars

\* The map, beside a simulator that is left alone.
InitMapScreen == InitNavWith(CHOOSE r \in Routes : r.id = 3, 0) /\ InitMap

SpecMap == InitMapScreen /\ [][NextMap]_vars

\* The screen left to itself: the host never renders it again, so every render
\* is one the simulator's own state updates caused.
NextNavSelf ==
  \/ BeginFrame
  \/ ClockAdvance
  \/ RunTick
  \/ NavRender
  \/ NavUnmount

SpecNavSelf == InitSimulator /\ [][NextNavSelf]_vars

One == <<1, 1>>

\* ----------------------------------------------------------------- claims

\* C1: while the screen is mounted, onComplete is invoked exactly once: only by
\* a tick whose fraction is 1, by the first such tick, and never a second time.
C1_CompleteExactlyOnce ==
  navMounted =>
    /\ completeCount <= 1
    /\ lastTick.completed => FracEQ(lastTick.fraction, One)
    /\ (lastTick.ran /\ FracEQ(lastTick.fraction, One)) => completeCount = 1

\* C2: once the simulator is torn down no tick is pending, no tick has run
\* since, and onComplete has not been invoked since.
C2_TeardownWithdrawsTick ==
  ~navMounted =>
    /\ frames = <<>>
    /\ nextFrames = <<>>
    /\ lastTick.mounted

\* C6: the fraction a tick writes is min(elapsed / durationMs, 1) with elapsed
\* measured from the start instant captured when the simulator started, and it
\* lies in [0, 1].
C6_FractionFromSimStart ==
  (lastTick.ran /\ lastTick.mounted) =>
    /\ FracEQ(progress, TickFraction(simStart, lastTick.now, route))
    /\ FracLE(<<0, 1>>, progress)
    /\ FracLE(progress, One)

\* C7: from one tick to the next over the same segment list, if the fraction
\* does not decrease then the active segment index the tick writes does not
\* decrease either (and an index is written).
C7_IndexMonotone ==
  (lastTick.ran /\ lastTick.prevRan /\ FracLE(lastTick.prevFraction, lastTick.fraction))
    => /\ lastTick.index >= lastTick.prevIndex
       /\ lastTick.index >= 0
       /\ lastTick.mounted => currentSegmentIndex = lastTick.index

\* C7 witness: between two successive ticks the fraction grew and the active
\* segment moved from the first of three segments to the last.
C7_Witness ==
  /\ lastTick.ran
  /\ lastTick.prevRan
  /\ Len(route.walkingSegments) = 3
  /\ FracLT(lastTick.prevFraction, lastTick.fraction)
  /\ lastTick.prevIndex = 0
  /\ lastTick.index = 2
  /\ currentSegmentIndex = 2

\* The fetches that were not aborted.
LiveRequests == { i \in 1..Len(requests) : ~requests[i].aborted }

\* C3: a fetch is aborted as soon as the inputs it was issued for are replaced
\* or the screen unmounts, so a fetch that is not aborted is the one issued last,
\* for the inputs of the last render of a mounted screen; the response of an
\* aborted fetch leaves the route line as it was, and only the fetch issued
\* last, not aborted, sets it.
C3_AbortedNeverSets ==
  /\ \A i \in LiveRequests :
       /\ mapMounted
       /\ requests[i].id = issued
       /\ requests[i].id = cleanupReq
       /\ userLocation = << requests[i].from >>
       /\ destinationPoint(selectedRoute, destinationCoords) = << requests[i].to >>
  /\ (lastDelivery.ran /\ lastDelivery.aborted) =>
       /\ ~lastDelivery.set
       /\ lastDelivery.after = lastDelivery.before
  /\ (lastDelivery.ran /\ lastDelivery.set) =>
       /\ ~lastDelivery.aborted
       /\ lastDelivery.latest

\* C3 witness: the response of a superseded fetch arrived while the fetch that
\* replaced it was still in flight, and the route line stayed as it was.
C3_Witness ==
  /\ mapMounted
  /\ lastDelivery.ran
  /\ lastDelivery.aborted
  /\ lastDelivery.id < issued
  /\ LiveRequests # {}

\* C4 as stated: a redraw that follows a change of the route id recenters, and
\* a later redraw with the same token and the same route id does not.
C4_RecenterOnRouteChange ==
  /\ (lastRedraw.ran /\ lastRedraw.routeChanged) => lastRedraw.recentered
  /\ (lastRedraw.ran /\ ~lastRedraw.first /\ ~lastRedraw.routeChanged
        /\ ~lastRedraw.tokenChanged) => ~lastRedraw.recentered

\* C4 amended: a redraw that follows a change of the route id recenters, and
\* a later redraw with the same token, the same route id and the same
\* destinationCoords prop does not.
C4_RecenterOnRouteOrDestChange ==
  /\ (lastRedraw.ran /\ lastRedraw.routeChanged) => lastRedraw.recentered
  /\ (lastRedraw.ran /\ ~lastRedraw.first /\ ~lastRedraw.routeChanged
        /\ ~lastRedraw.tokenChanged /\ ~lastRedraw.destChanged)
       => ~lastRedraw.recentered

\* C4 witness: the route id changed, the token did not, and the redraw
\* recentered without being forced.
C4_Witness ==
  /\ mapMounted
  /\ lastRedraw.ran
  /\ lastRedraw.routeChanged
  /\ ~lastRedraw.tokenChanged
  /\ ~lastRedraw.forced
  /\ lastRedraw.recentered

\* What a forced recenter does to the viewport, by the line the redraw drew.
ForcedView ==
  IF lastRedraw.lineLen < 2
    THEN view.kind = "setView" /\ view.zoom = ZoomForced
    ELSE view.kind = "fitBounds" /\ view.bounds = Bounds(routeLine)

\* C5 as stated: the redraw that follows an increment of the token recenters
\* (zoom 16 on the centre point under 2 points, the line's bounds otherwise) and
\* records the token; a later redraw with the same token and the same route id
\* does not recenter.
C5_TokenRecentersOnce ==
  /\ (lastRedraw.ran /\ lastRedraw.tokenChanged) =>
       /\ lastRedraw.recentered
       /\ ForcedView
       /\ lastRecenterTokenRef = recenterToken
  /\ (lastRedraw.ran /\ ~lastRedraw.first /\ ~lastRedraw.tokenChanged
        /\ ~lastRedraw.routeChanged) =>
       /\ ~lastRedraw.recentered
       /\ lastRecenterTokenRef = recenterToken

\* C5 amended: the same, the later redraw being one with the same token, the
\* same route id and the same destinationCoords prop.
C5_TokenRecentersOnceSameDest ==
  /\ (lastRedraw.ran /\ lastRedraw.tokenChanged) =>
       /\ lastRedraw.recentered
       /\ ForcedView
       /\ lastRecenterTokenRef = recenterToken
  /\ (lastRedraw.ran /\ ~lastRedraw.first /\ ~lastRedraw.tokenChanged
        /\ ~lastRedraw.routeChanged /\ ~lastRedraw.destChanged) =>
       /\ ~lastRedraw.recentered
       /\ lastRecenterTokenRef = recenterToken

\* C5 witness: the token was incremented with the route unchanged and no line
\* drawn, and the redraw centred at the forced zoom and recorded the token.
C5_Witness ==
  /\ mapMounted
  /\ lastRedraw.ran
  /\ lastRedraw.tokenChanged
  /\ ~lastRedraw.routeChanged
  /\ ~lastRedraw.destChanged
  /\ lastRedraw.lineLen < 2
  /\ recenterToken >= 1
  /\ view.kind = "setView"
  /\ view.zoom = ZoomForced
  /\ lastRecenterTokenRef = recenterToken

\* C8: while the route carries a precomputed path, the resolved route line is
\* that path and no routing fetch is live.
C8_PathVerbatim ==
  (mapMounted /\ selectedRoute # <<>> /\ Len(selectedRoute[1].pathCoordinates) > 0) =>
    /\ RouteLineNow = selectedRoute[1].pathCoordinates
    /\ LiveRequests = {}
    /\ cleanupReq = 0

\* C8 witness: the route carries a path while the user position and the
\* destination are both known and an earlier route's fetch is still unsettled;
\* the rendered line is the path.
C8_Witness ==
  /\ mapMounted
  /\ selectedRoute # <<>>
  /\ Len(selectedRoute[1].pathCoordinates) = 3
  /\ userLocation # <<>>
  /\ destinationPoint(selectedRoute, destinationCoords) # <<>>
  /\ requests # <<>>
  /\ routeLine = selectedRoute[1].pathCoordinates
  /\ pendLine = <<>>

\* C9: after a fetch that was not aborted fails (rejected, or a body without
\* the nested coordinates), the resolved route line is empty.
C9_FailureEmptiesLine ==
  (lastDelivery.ran /\ ~lastDelivery.aborted
     /\ lastDelivery.kind \in {"malformed", "network"}) =>
    lastDelivery.after = <<>>

\* The route has no precomputed path and the user position or the destination
\* point is unknown.
MissingInput ==
  /\ selectedRoute = <<>> \/ Len(selectedRoute[1].pathCoordinates) = 0
  /\ UserLocationNow = <<>> \/ destinationPoint(selectedRoute, destinationCoords) = <<>>

\* C10: while the route has no precomputed path and the user position or the
\* destination point is unknown, the resolved route line is empty and no
\* routing fetch is live.
C10_MissingInputEmpty ==
  (mapMounted /\ MissingInput) =>
    /\ RouteLineNow = <<>>
    /\ LiveRequests = {}
    /\ cleanupReq = 0

\* C10 witness: a response had resolved a line of two points, then the
\* destination went away while the user position was known; the line is empty.
C10_Witness ==
  /\ mapMounted
  /\ MissingInput
  /\ userLocation # <<>>
  /\ lastDelivery.ran
  /\ lastDelivery.set
  /\ Len(lastDelivery.after) = 2
  /\ RouteLineNow = <<>>

\* ------------------------------------------------------------------ C11
\* C11: after every redraw of the mounted map the layer group holds exactly
\* the layers of the inputs of that redraw, in this order: the route line (only
\* when it has at least two points), the user marker (when the user position
\* is known), the destination marker (when the destination point is known),
\* then one marker per transit stop in stop order; nothing of an earlier
\* redraw is left and nothing appears twice.
C11_LayersExact ==
  (mapMounted /\ lastRedraw.ran) =>
    LET dp    == destinationPoint(selectedRoute, destinationCoords)
        stops == transitStops(selectedRoute, routeLine)
        nLine == IF Len(routeLine) >= 2 THEN 1 ELSE 0
        nUser == IF userLocation # <<>> THEN 1 ELSE 0
        nDest == IF dp # <<>> THEN 1 ELSE 0
    IN  /\ Len(layers) = nLine + nUser + nDest + Len(stops)
        /\ nLine = 1 =>
             /\ layers[1].kind = "polyline"
             /\ Len(layers[1].latlngs) = Len(routeLine)
             /\ \A i \in 1..Len(routeLine) :
                  layers[1].latlngs[i] = << routeLine[i].lat, routeLine[i].lng >>
        /\ nUser = 1 =>
             layers[nLine + 1] =
               [kind |-> "marker", icon |-> "user",
                latlngs |-> << << userLocation[1].lat, userLocation[1].lng >> >>]
        /\ nDest = 1 =>
             layers[nLine + nUser + 1] =
               [kind |-> "marker", icon |-> "destination",
                latlngs |-> << << dp[1].lat, dp[1].lng >> >>]
        /\ \A i \in 1..Len(stops) :
             layers[nLine + nUser + nDest + i] =
               [kind |-> "marker", icon |-> stops[i].icon,
                latlngs |-> << << stops[i].point.lat, stops[i].point.lng >> >>]

\* A redraw over a full group, after an earlier redraw had filled it: the
\* line, both markers and two stops.
C11_Witness ==
  /\ mapMounted
  /\ lastRedraw.ran
  /\ ~lastRedraw.first
  /\ Len(routeLine) >= 2
  /\ userLocation # <<>>
  /\ destinationPoint(selectedRoute, destinationCoords) # <<>>
  /\ Len(transitStops(selectedRoute, routeLine)) = 2
  /\ Len(layers) = 5

\* ------------------------------------------------------------------ C12
\* C12: once the map has been torn down, nothing that arrives later acts on
\* it: the refs to the map and its layer group are released, so no redraw can
\* reach the removed surface, and every later step leaves the layers, the
\* viewport, the first-draw flag and the last-applied token as they were and
\* does not bring the map back.
C12_TeardownIsFinal ==
  /\ [](~mapMounted => (~mapRef /\ layers = <<>>))
  /\ [][~mapMounted =>
          /\ ~mapMounted'
          /\ ~mapRef'
          /\ layers' = layers
          /\ view' = view
          /\ firstDrawRef' = firstDrawRef
          /\ lastRecenterTokenRef' = lastRecenterTokenRef]_vars

\* A routing fetch settled after the teardown, with the location callback
\* already in: the late arrival found nothing to act on.
C12_Witness ==
  /\ ~mapMounted
  /\ ~mapRef
  /\ lastDelivery.ran
  /\ ~lastDelivery.mounted
  /\ lastDelivery.aborted
  /\ ~geoPending
  /\ lastRedraw.ran

\* ------------------------------------------------------------------ C13
\* The stop projector over paths of every length up to MaxPathLen and label
\* lists of every length up to MaxLabels.
MaxPathLen == 10
MaxLabels == 3

\* A path of n distinct points.
StopPath(n) == [i \in 1..n |-> Pt(i * 1000, i * 1000 + 500)]

LabelPool ==
  << Mode("Bus 12", {"bus"}), Mode("MRT Circle", {"mrt"}),
     Mode("Walk", {}), Mode("KTM Rail", {"rail"}) >>

\* k transport-mode labels.
StopLabels(k) == [i \in 1..k |-> LabelPool[((i - 1) % Len(LabelPool)) + 1]]

StopRoutes ==
  { << MapRoute(10 + n * (MaxLabels + 1) + k, StopPath(n), <<>>, StopLabels(k)) >> :
      n \in 0..MaxPathLen, k \in 0..MaxLabels }

InitStops ==
  /\ InitNavWith(CHOOSE r \in Routes : r.id = 3, 0)
  /\ \E sr \in StopRoutes : InitMapWith(sr, <<>>, FALSE)

\* The host renders the map with another route.
StopsHostRender ==
  /\ \E sr2 \in StopRoutes : Commit(sr2, <<>>, recenterToken, FALSE)
  /\ UNCHANGED navVars

NextStops ==
  \/ MapRender
  \/ StopsHostRender
  \/ MapUnmount

SpecStops == InitStops /\ [][NextStops]_vars

\* The stop markers of the layer group, in insertion order.
StopLayers ==
  SelectSeq(layers, LAMBDA l : l.kind = "marker" /\ l.icon \in {"bus", "rail", "walk"})

\* C13: for a non-empty path of n points and k > 0 labels the projector yields
\* exactly k stops, the stop of label i (from 0) anchored at
\* path[min(i * step, n - 1)] with step = max(1, floor(n / k)), so n = 10 and
\* k = 2 anchor at indices 0 and 5; an empty path or an empty label list yields
\* no stop.
C13_StopsAnchored ==
  (mapMounted /\ lastRedraw.ran /\ selectedRoute # <<>>) =>
    LET own  == selectedRoute[1].pathCoordinates
        path == IF Len(own) > 0 THEN own ELSE routeLine
        n    == Len(path)
        k    == Len(selectedRoute[1].transportModes)
        f    == IF k > 0 THEN n \div k ELSE 0
        step == IF f >= 1 THEN f ELSE 1
        at(i) == IF i * step <= n - 1 THEN i * step ELSE n - 1
    IN  /\ (n = 0 \/ k = 0) => StopLayers = <<>>
        /\ (n > 0 /\ k > 0) =>
             /\ Len(StopLayers) = k
             /\ \A i \in 0..(k - 1) :
                  StopLayers[i + 1].latlngs =
                    << << path[at(i) + 1].lat, path[at(i) + 1].lng >> >>
        /\ (n = 10 /\ k = 2) =>
             /\ StopLayers[1].latlngs = << << path[1].lat, path[1].lng >> >>
             /\ StopLayers[2].latlngs = << << path[6].lat, path[6].lng >> >>

\* Ten points and two labels, at a redraw after the first: the stops are drawn
\* at the first and the sixth point.
C13_Witness ==
  /\ mapMounted
  /\ lastRedraw.ran
  /\ ~lastRedraw.first
  /\ Len(routeLine) = 10
  /\ selectedRoute # <<>>
  /\ Len(selectedRoute[1].pathCoordinates) = 10
  /\ Len(selectedRoute[1].transportModes) = 2
  /\ Len(StopLayers) = 2
  /\ StopLayers[1].latlngs = << << 1000, 1500 >> >>
  /\ StopLayers[2].latlngs = << << 6000, 6500 >> >>

\* ------------------------------------------------------------------ C14
\* C14: a successful routing response sets the route line to one point per
\* coordinate pair of the response, in the same order, the first element of a
\* pair becoming the longitude and the second the latitude.
C14_LongitudeFirst ==
  (lastDelivery.ran /\ lastDelivery.set) =>
    LET cs == lastDelivery.coordinates
        ln == lastDelivery.after
    IN  /\ Len(ln) = Len(cs)
        /\ \A i \in 1..Len(cs) :
             /\ ln[i].lng = cs[i][1]
             /\ ln[i].lat = cs[i][2]

\* A response of two pairs whose elements differ was turned into the line and
\* the line was rendered.
C14_Witness ==
  /\ mapMounted
  /\ lastDelivery.ran
  /\ lastDelivery.set
  /\ lastDelivery.coordinates = << <<2000, 1000>>, <<4000, 3000>> >>
  /\ routeLine = << Pt(1000, 2000), Pt(3000, 4000) >>
  /\ pendLine = <<>>

\* ------------------------------------------------------------------ C15
\* C15 as stated: a route with absent or empty segments runs over exactly one
\* synthetic last-mile segment whose duration and distance are the route's
\* planned duration and distance; the active index is 0 at every tick and that
\* segment is the last (last-mile) one.
C15_SyntheticSegment ==
  Len(route.walkingSegments) = 0 =>
    /\ segments(route) =
         << [duration |-> route.duration, distance |-> route.distance,
             isLastMile |-> TRUE] >>
    /\ lastTick.ran => lastTick.index = 0
    /\ currentSegmentIndex = 0
    /\ isLastSegment(route, currentSegmentIndex)
    /\ formatSegmentLabel(route, currentSegmentIndex) = "Last mile walk to destination"

\* C15, amended: the synthetic segment's distance is the route's planned
\* distance, or 0.8 km when that distance is 0; the rest as stated.
C15_SyntheticSegmentDefault ==
  Len(route.walkingSegments) = 0 =>
    /\ segments(route) =
         << [duration |-> route.duration,
             distance |-> IF route.distance = 0 THEN DefaultDistanceM
                          ELSE route.distance,
             isLastMile |-> TRUE] >>
    /\ lastTick.ran => lastTick.index = 0
    /\ currentSegmentIndex = 0
    /\ isLastSegment(route, currentSegmentIndex)
    /\ formatSegmentLabel(route, currentSegmentIndex) = "Last mile walk to destination"

\* A route without segments and with distance 0 ticked strictly inside the
\* run and then at its end, over the 0.8 km synthetic segment, at index 0.
C15_Witness ==
  /\ Len(route.walkingSegments) = 0
  /\ route.distance = 0
  /\ navMounted
  /\ lastTick.ran
  /\ lastTick.prevRan
  /\ FracLT(<<0, 1>>, lastTick.prevFraction)
  /\ FracLT(lastTick.prevFraction, <<1, 1>>)
  /\ lastTick.prevIndex = 0
  /\ lastTick.completed
  /\ lastTick.index = 0
  /\ currentSegmentIndex = 0
  /\ segments(route)[1].distance = DefaultDistanceM

\* ------------------------------------------------------------------ C16
\* The simulator over longer routes, the clock read at TickParts evenly spaced
\* instants of the planned duration and once past its end.
TickParts == 10

TickRoutes ==
  { [id |-> 11, duration |-> 10, distance |-> 800, walkingSegments |-> <<>>],
    [id |-> 12, duration |-> 10, distance |-> 0,   walkingSegments |-> <<>>],
    [id |-> 13, duration |-> 3,  distance |-> 1250,
       walkingSegments |-> <<Seg(1, 450, FALSE), Seg(2, 800, TRUE)>>],
    [id |-> 14, duration |-> 7,  distance |-> 330,
       walkingSegments |-> <<Seg(7, 330, TRUE)>>] }

TickGap(r) == durationMs(r) \div TickParts

InitTick ==
  /\ \E r \in TickRoutes : InitNavWith(r, 0)
  /\ InitMapWith(<<>>, <<>>, FALSE)

\* performance.now() moves on between frames, by parts of the planned duration.
TickClockAdvance ==
  /\ frames = <<>>
  /\ \E k \in 1..3 :
       /\ clock + k * TickGap(route) <= durationMs(route) + TickGap(route)
       /\ clock' = clock + k * TickGap(route)
  /\ UNCHANGED <<route, navMounted, simStart, progress, remainingMinutes,
                 remainingDistance, currentSegmentIndex, navDirty, frames,
                 nextFrames, completeCount, lastTick>>
  /\ UNCHANGED mapVars

NextTick ==
  \/ BeginFrame
  \/ TickClockAdvance
  \/ RunTick
  \/ NavRender
  \/ NavUnmount

SpecTick == InitTick /\ [][NextTick]_vars

\* C16 as stated: at every tick, for every route with planned duration > 0
\* and planned distance >= 0, remaining minutes = max(round(duration * (1 -
\* fraction)), 0) and remaining distance = max(distance * (1 - fraction) rounded
\* to 2 decimals, 0), duration and distance being the route's own planned
\* values; 0.8 km and 10 min give 0.40 km and 5 min at fraction 0.5, and both
\* are 0 at fraction 1.  Rounding is to a nearest value, whichever on a tie.
C16_RemainingFromPlanned ==
  (lastTick.ran /\ lastTick.mounted /\ route.duration > 0 /\ route.distance >= 0) =>
    LET num  == lastTick.fraction[1]
        den  == lastTick.fraction[2]
        abs(x) == IF x < 0 THEN -x ELSE x
    IN  /\ remainingMinutes >= 0
        /\ 2 * abs(remainingMinutes * den - route.duration * (den - num)) <= den
        /\ remainingDistance >= 0
        /\ remainingDistance % 10 = 0
        /\ 2 * abs(remainingDistance * den - route.distance * (den - num)) <= 10 * den
        /\ num = den => (remainingMinutes = 0 /\ remainingDistance = 0)
        /\ (route.duration = 10 /\ route.distance = 800 /\ 2 * num = den) =>
             (remainingMinutes = 5 /\ remainingDistance = 400)

\* C16, amended: as stated for a planned distance > 0; for a planned distance
\* of 0 the remaining distance is computed from 0.8 km in its place.
C16_RemainingFromPlannedOrDefault ==
  (lastTick.ran /\ lastTick.mounted /\ route.duration > 0 /\ route.distance >= 0) =>
    LET num  == lastTick.fraction[1]
        den  == lastTick.fraction[2]
        dist == IF route.distance > 0 THEN route.distance ELSE DefaultDistanceM
        abs(x) == IF x < 0 THEN -x ELSE x
    IN  /\ remainingMinutes >= 0
        /\ 2 * abs(remainingMinutes * den - route.duration * (den - num)) <= den
        /\ remainingDistance >= 0
        /\ remainingDistance % 10 = 0
        /\ 2 * abs(remainingDistance * den - dist * (den - num)) <= 10 * den
        /\ num = den => (remainingMinutes = 0 /\ remainingDistance = 0)
        /\ (route.duration = 10 /\ route.distance = 800 /\ 2 * num = den) =>
             (remainingMinutes = 5 /\ remainingDistance = 400)

\* The 0.8 km, 10 min route ticked at half of its duration: 0.40 km and 5 min
\* remain.
C16_Witness ==
  /\ route.duration = 10
  /\ route.distance = 800
  /\ navMounted
  /\ lastTick.ran
  /\ lastTick.mounted
  /\ lastTick.fraction = <<1, 2>>
  /\ remainingMinutes = 5
  /\ remainingDistance = 400

\* ------------------------------------------------------------------ C17
\* The map under a host that keeps the route id and changes the route's own
\* destination.
RearmRoutes ==
  { << MapRoute(2, <<>>, << PDestA >>, << Mode("Bus 12", {"bus"}) >>) >>,
    << MapRoute(2, <<>>, << PDestB >>, << Mode("Bus 12", {"bus"}) >>) >> }

InitRearm ==
  /\ InitNavWith(CHOOSE r \in Routes : r.id = 3, 0)
  /\ \E sr \in RearmRoutes, geo \in BOOLEAN : InitMapWith(sr, <<>>, geo)

RearmHostRender ==
  /\ \E sr2 \in RearmRoutes, dc2 \in DestCoords :
       Commit(sr2, dc2, recenterToken, FALSE)
  /\ UNCHANGED navVars

NextRearm ==
  \/ MapRender
  \/ RearmHostRender
  \/ CenterMapClick
  \/ GeoSuccess
  \/ GeoError
  \/ Deliver
  \/ MapUnmount

SpecRearm == InitRearm /\ [][NextRearm]_vars

\* C17: whenever the route identity or the destination point the map uses
\* (the route's own destination if it has one, else the one supplied beside it)
\* changes, the first-draw flag is set again before the next redraw, so that
\* redraw recenters even with the token unchanged.
C17_RearmOnPointChange ==
  (mapMounted /\ lastRedraw.ran /\ ~lastRedraw.first
     /\ (lastRedraw.routeChanged \/ lastRedraw.pointChanged)) =>
    lastRedraw.recentered

\* ------------------------------------------------------------------ C18
\* C18: a redraw is handled as a forced recenter (zoom 16 when centring on a
\* point, last-applied token updated) only if the host incremented the token
\* since the token last applied; a redraw that recenters for first draw alone,
\* the very first redraw after mount with the initial token included, centres
\* at the first-draw zoom 14 when the route line has fewer than two points.
C18_ForcedOnlyOnIncrement ==
  (mapMounted /\ lastRedraw.ran) =>
    /\ lastRedraw.forced => lastRedraw.tokenChanged
    /\ (lastRedraw.recentered /\ ~lastRedraw.tokenChanged /\ lastRedraw.lineLen < 2) =>
         /\ view.kind = "setView"
         /\ view.zoom = ZoomFirstDraw

\* ------------------------------------------------------------------ C19
\* C19: the active segment index a tick sets is the smallest i whose cumulative
\* duration through segment i is at least the elapsed-duration target (the
\* total of the segment durations times the fraction); when the target equals a
\* cumulative boundary the earlier segment is the one selected.
C19_SmallestReaching ==
  lastTick.ran =>
    LET segs  == segments(route)
        num   == lastTick.fraction[1]
        den   == lastTick.fraction[2]
        total == CumDur(segs, Len(segs) - 1)
        reached(i) == total * num <= CumDur(segs, i) * den
        idx   == lastTick.index
    IN  /\ idx \in 0..(Len(segs) - 1)
        /\ reached(idx)
        /\ \A j \in 0..(idx - 1) : ~reached(j)
        /\ lastTick.mounted => currentSegmentIndex = idx

\* A tick whose target is exactly the boundary shared by segment 0 and the
\* zero-length segment 1: segment 0 is selected.
C19_Witness ==
  /\ navMounted
  /\ lastTick.ran
  /\ Len(segments(route)) = 3
  /\ CumDur(segments(route), 0) = CumDur(segments(route), 1)
  /\ CumDur(segments(route), 2) * lastTick.fraction[1]
       = CumDur(segments(route), 0) * lastTick.fraction[2]
  /\ lastTick.index = 0
  /\ currentSegmentIndex = 0

\* ------------------------------------------------------------------ C20
\* C20: on a screen that stays mounted, with frames delivered and the clock
\* advancing, the fraction reaches 1 and completion fires for every route,
\* with walking segments or without, and from then on no tick is pending and
\* none is scheduled again.  The part a finite run can refute: once completion
\* has fired on the mounted screen, no animation-frame callback is waiting.
C20_QuietAfterCompletion ==
  (navMounted /\ completeCount >= 1) =>
    (frames = <<>> /\ nextFrames = <<>>)

\* ------------------------------------------------------------------ C21
\* C21: at every moment of the mounted screen's lifetime at most one simulator
\* tick is pending; a re-run of the tick effect withdraws the tick of the
\* previous run before it schedules a new one, so two tick loops never run
\* side by side.
C21_OneTickPending ==
  navMounted => Len(frames) + Len(nextFrames) <= 1

\* ------------------------------------------------------------------ C22
\* C22 as stated: the first redraw on the mounted map clears the first-draw
\* flag although the route line is still empty, and the redraw in which a
\* route line of at least 2 points first appears neither recenters nor fits
\* the viewport unless the recenter token differs from the last-applied one.
C22_LineArrivalKeepsView ==
  (mapMounted /\ lastRedraw.ran) =>
    /\ ~firstDrawRef
    /\ lastRedraw.first => lastRedraw.lineLen = 0
    /\ (lastRedraw.lineAppeared /\ ~lastRedraw.forced) => ~lastRedraw.recentered

\* C22, amended: as stated, for a render in which neither the route id nor
\* the destinationCoords prop changed (a change of either sets the flag again
\* before that redraw).
C22_LineArrivalKeepsViewSameRoute ==
  (mapMounted /\ lastRedraw.ran) =>
    /\ ~firstDrawRef
    /\ lastRedraw.first => lastRedraw.lineLen = 0
    /\ (lastRedraw.lineAppeared /\ ~lastRedraw.forced
          /\ ~lastRedraw.routeChanged /\ ~lastRedraw.destChanged) =>
         ~lastRedraw.recentered

\* A line of three points appeared at a redraw with the token, the route and
\* the destination as before: the viewport is still the one the first redraw
\* centred on a point.
C22_Witness ==
  /\ mapMounted
  /\ lastRedraw.ran
  /\ lastRedraw.lineAppeared
  /\ ~lastRedraw.tokenChanged
  /\ ~lastRedraw.forced
  /\ ~lastRedraw.routeChanged
  /\ ~lastRedraw.destChanged
  /\ ~lastRedraw.recentered
  /\ Len(routeLine) = 3
  /\ layers[1].kind = "polyline"
  /\ view.kind = "setView"
====
